---- MODULE Spec2Model ----
(***************************************************************************)
(* OpenMediaTranscoder: the job registry (src/jobs.ts), the job runner of  *)
(* POST /api/jobs and the webhook notifier (src/index.ts), the upload      *)
(* helper (src/s3.ts) and the HLS pipeline (src/transcoder.ts).            *)
(*                                                                         *)
(* JavaScript runs one task at a time: the code between two awaits is one  *)
(* atomic step.  Every action below is one such step of a job's runner or  *)
(* the completion of one external operation.                               *)
(*                                                                         *)
(* Runners share nothing but the registry, where each touches the record   *)
(* of its own id: Spec follows the job of the first POST /api/jobs from    *)
(* its submission to the end of its runner, with every outcome of every    *)
(* external operation and every order in which its uploads settle, up to   *)
(* MaxUploadFailures failed uploads.                                       *)
(***************************************************************************)
EXTENDS Integers, Sequences, FiniteSets, TLC

\* ------------------------------------------------------------------ bounds
\* Largest value the millisecond clock (Date.now) reaches.
MaxClock == 1
\* Largest number of PutObject requests of one job that fail.
MaxUploadFailures == 1
\* Largest length of the bitrate strings parseBitrate is evaluated on.
MaxBitrateLen == 3
MaxFrames == 24
MaxJobs == 2

\* ----------------------------------------------------- optional JS values
\* An optional field (undefined or a value) is the empty or the one-element
\* sequence.
None == <<>>
Some(x) == <<x>>

\* JavaScript truthiness of an optional string (undefined and "" are falsy).
Truthy(o) == o # None /\ o[1] # ""

\* ------------------------------------------------------------ environment
\* Request bodies of POST /api/jobs: resultKeyPrefix and webhookUrl are
\* optional.
SourceUrl == "https://bucket.example/source.mp4"
ResultKeyPrefixes == {None, Some(<<"custom/">>)}
WebhookUrls == {None, Some("https://client.example/hook")}

\* Heights ffprobe reports for the source video.
SourceHeights == {240, 480}
\* Durations (seconds) ffprobe reports for the source video.
Durations == {3, 25}
\* Number of thumb-NNN.jpg files readdir finds after the scrub run.
ThumbListings == {0, 2}
\* What readdir finds in a rendition's directory after a successful encode.
RenditionListing == <<"playlist.m3u8", "segment-000.ts">>
\* Diagnostic text FFmpeg writes to stderr.
EngineStderr == "Conversion failed!"
\* process.env.WEBHOOK_SECRET ?? process.env.JWT_SECRET ?? ""
WebhookSecret == "shared-secret"

\* Messages of the errors thrown by the platform and the libraries (fetch,
\* fs, JSON.parse, the S3 client): opaque texts.
FetchError == <<"Unable to connect">>
BodyError == <<"The socket connection was closed unexpectedly">>
FsError == <<"ENOSPC: no space left on device">>
ParseError == <<"JSON Parse error: Unexpected EOF">>
S3Error == <<"AccessDenied">>
\* response.statusText of a non-success source response (empty over HTTP/2).
StatusTexts == {"Not Found", ""}

\* ------------------------------------------------------- src/transcoder.ts
\* A bitrate string is the sequence of its characters.
DEFAULT_QUALITIES ==
    << [name |-> "360p",  height |-> 360,
        videoBitrate |-> <<"8", "0", "0", "k">>, audioBitrate |-> <<"9", "6", "k">>],
       [name |-> "480p",  height |-> 480,
        videoBitrate |-> <<"1", "4", "0", "0", "k">>, audioBitrate |-> <<"1", "2", "8", "k">>],
       [name |-> "720p",  height |-> 720,
        videoBitrate |-> <<"2", "8", "0", "0", "k">>, audioBitrate |-> <<"1", "2", "8", "k">>],
       [name |-> "1080p", height |-> 1080,
        videoBitrate |-> <<"5", "0", "0", "0", "k">>, audioBitrate |-> <<"1", "9", "2", "k">>],
       [name |-> "1440p", height |-> 1440,
        videoBitrate |-> <<"9", "0", "0", "0", "k">>, audioBitrate |-> <<"1", "9", "2", "k">>],
       [name |-> "2160p", height |-> 2160,
        videoBitrate |-> <<"1", "6", "0", "0", "0", "k">>, audioBitrate |-> <<"2", "5", "6", "k">>] >>

\* Mutant: the quality filter keeps the heights strictly below the input's.
SelectQualitiesStrict(qualities, inputHeight) ==
    LET valid == SelectSeq(qualities, LAMBDA q : q.height < inputHeight)
    IN  IF Len(valid) = 0 THEN <<qualities[1]>> ELSE valid

\* validQualities of transcodeToHLS: the ladder entries not above the input
\* height, or the lowest entry when there is none.
SelectQualities(qualities, inputHeight) ==
    LET valid == SelectSeq(qualities, LAMBDA q : q.height <= inputHeight)
    IN  IF Len(valid) = 0 THEN <<qualities[1]>> ELSE valid

\* The decimal digits, each at the position of its value plus one.
Digits == <<"0", "1", "2", "3", "4", "5", "6", "7", "8", "9">>
IsDigit(c) == \E d \in 1..10 : Digits[d] = c
DigitValue(c) == (CHOOSE d \in 1..10 : Digits[d] = c) - 1

\* The number a sequence of digits denotes, and ten to the power n.
RECURSIVE DigitsValue(_)
DigitsValue(ds) ==
    IF Len(ds) = 0 THEN 0
    ELSE 10 * DigitsValue(SubSeq(ds, 1, Len(ds) - 1)) + DigitValue(ds[Len(ds)])
RECURSIVE Pow10(_)
Pow10(n) == IF n = 0 THEN 1 ELSE 10 * Pow10(n - 1)

\* Mutant: the unit of a bitrate is matched case-sensitively (k and M only).
BitrateUnitCaseSensitive(c) ==
    IF c = "k" THEN 1000 ELSE IF c = "M" THEN 1000000 ELSE 0

\* The multiplier of the unit character matched by (k|M)? under the i flag,
\* 0 for any other character.
BitrateUnit(c) ==
    IF c \in {"k", "K"} THEN 1000 ELSE IF c \in {"m", "M"} THEN 1000000 ELSE 0

\* parseBitrate: the match of /^(\d+(?:\.\d+)?)(k|M)?$/i, then
\* Math.floor(parseFloat(match[1]) * multiplier); no match gives 0.  The
\* product is computed exactly, as the floating-point product is for the
\* strings evaluated below (integers, and fractions that are sums of powers
\* of two).
parseBitrate(bitrate) ==
    LET n == Len(bitrate)
        hasUnit == n > 0 /\ BitrateUnit(bitrate[n]) > 0
        multiplier == IF hasUnit THEN BitrateUnit(bitrate[n]) ELSE 1
        number == IF hasUnit THEN SubSeq(bitrate, 1, n - 1) ELSE bitrate
        m == Len(number)
        dots == {i \in 1..m : number[i] = "."}
        dot == IF dots = {} THEN m + 1 ELSE CHOOSE i \in dots : TRUE
        whole == SubSeq(number, 1, dot - 1)
        fraction == SubSeq(number, dot + 1, m)
        matches == /\ Cardinality(dots) <= 1
                   /\ Len(whole) > 0
                   /\ dots # {} => Len(fraction) > 0
                   /\ \A i \in 1..m : i \notin dots => IsDigit(number[i])
    IN  IF ~matches THEN 0
        ELSE ((DigitsValue(whole) * Pow10(Len(fraction)) + DigitsValue(fraction))
                 * multiplier) \div Pow10(Len(fraction))

\* generateMasterPlaylist: after the header, one #EXT-X-STREAM-INF line and
\* one URI line per quality, in the order of `qualities`; prefix is not used.
generateMasterPlaylist(qualities, prefix) ==
    [header |-> <<"#EXTM3U", "#EXT-X-VERSION:3">>,
     streams |->
        [i \in 1..Len(qualities) |->
            LET quality == qualities[i]
            IN  [bandwidth |-> parseBitrate(quality.videoBitrate)
                                 + parseBitrate(quality.audioBitrate),
                 resolution |-> <<(quality.height * 16) \div 9, quality.height>>,
                 name |-> quality.name,
                 uri |-> <<quality.name, "/playlist.m3u8">>]]]

\* A TranscodedFile: its key `${outputPrefix}${dir}${file}` and content type.
FileKey(prefix, dir, file) == [prefix |-> prefix, dir |-> dir, file |-> file]

ContentTypeOf(file) ==
    IF file = "playlist.m3u8" THEN "application/x-mpegURL"
    ELSE IF file = "segment-000.ts" THEN "video/MP2T"
    ELSE "application/octet-stream"

\* The files pushed for one encoded quality, in readdir order.
RenditionFiles(prefix, quality) ==
    [i \in 1..Len(RenditionListing) |->
        [key |-> FileKey(prefix, quality.name, RenditionListing[i]),
         contentType |-> ContentTypeOf(RenditionListing[i])]]

MasterFile(prefix) ==
    [key |-> FileKey(prefix, "", "master.m3u8"), contentType |-> "application/x-mpegURL"]

\* thumbnails.map(t => ({ key: `${outputPrefix}${t.filename}`, ... }))
ThumbnailFile(prefix, filename) ==
    [key |-> FileKey(prefix, "", filename),
     contentType |-> IF filename = "thumbnails.vtt" THEN "text/vtt" ELSE "image/jpeg"]

\* thumbCount = Math.floor(duration / interval), interval = 10 by default.
ThumbnailInterval == 10
\* Mutant: the count is rounded up, so that a source shorter than the
\* interval still has one scrub frame.
ThumbCountCeil(duration) == (duration + ThumbnailInterval - 1) \div ThumbnailInterval
ThumbCount(duration) == duration \div ThumbnailInterval

\* ------------------------------------------------------------- src/jobs.ts
createJob(id, sourceUrl, resultKeyPrefix, webhookUrl, t) ==
    [id |-> id,
     sourceUrl |-> sourceUrl,
     resultKeyPrefix |-> resultKeyPrefix,
     webhookUrl |-> webhookUrl,
     status |-> "pending",
     progress |-> None,
     createdAt |-> t,
     updatedAt |-> t,
     resultFiles |-> None,
     posterUrl |-> None,
     thumbnailsVtt |-> None,
     error |-> None]

\* Mutant: the update is applied to every record of the registry.
updateJobEvery(reg, id, updates, t) ==
    [j \in DOMAIN reg |->
        [f \in DOMAIN reg[j] |->
            IF f = "updatedAt" THEN t
            ELSE IF f \in DOMAIN updates THEN updates[f]
            ELSE reg[j][f]]]

\* Object.assign(job, updates, { updatedAt: Date.now() }); an unknown id
\* changes nothing.  `updates` is a record holding the fields to overwrite.
updateJob(reg, id, updates, t) ==
    IF id \notin DOMAIN reg THEN reg
    ELSE LET job == reg[id]
         IN  [reg EXCEPT ![id] =
                 [f \in DOMAIN job |->
                     IF f = "updatedAt" THEN t
                     ELSE IF f \in DOMAIN updates THEN updates[f]
                     ELSE job[f]]]

\* ------------------------------------------------------------ src/index.ts
\* Math.round(x / y) for non-negative x and positive y (round half up).
RoundDiv(x, y) == (2 * x + y) \div (2 * y)

\* The progress object of the first update of the runner.
DownloadingProgress ==
    [step |-> "downloading",
     currentQuality |-> None,
     completedQualities |-> None,
     totalQualities |-> None,
     percentage |-> 0,
     message |-> <<"Downloading source video...">>]

\* Mutant: the completed share is not scaled to the 10-70 range.
TranscodePercentageUnscaled(completed, total) == RoundDiv(Len(completed) * 100, total)

\* Mutant: the transcoding range starts at 0.
TranscodePercentageNoBase(completed, total) == RoundDiv(Len(completed) * 60, total)

\* percentage = Math.round((completed.length / total) * 60) + 10
TranscodePercentage(completed, total) == RoundDiv(Len(completed) * 60, total) + 10

\* The progress object onProgress(current, completed, total) stores.  It
\* holds the completedQualities array of transcodeToHLS itself; the array
\* only grows right before the next onProgress call, in the same step, so
\* the list read from the registry is the one passed here.
TranscodingProgress(current, completed, total) ==
    [step |-> "transcoding",
     currentQuality |-> Some(current),
     completedQualities |-> Some(completed),
     totalQualities |-> Some(total),
     percentage |-> TranscodePercentage(completed, total),
     message |-> <<"Transcoding ", current, " (", Len(completed), "/", total, " complete)...">>]

UploadingProgress(files) ==
    [step |-> "uploading",
     currentQuality |-> None,
     completedQualities |-> None,
     totalQualities |-> None,
     percentage |-> 80,
     message |-> <<"Uploading ", Len(files), " files to S3...">>]

DoneProgress ==
    [step |-> "done",
     currentQuality |-> None,
     completedQualities |-> None,
     totalQualities |-> None,
     percentage |-> 100,
     message |-> <<"Transcoding complete!">>]

\* files.find(f => f.key.endsWith(suffix))?.key
FindKey(files, suffix) ==
    LET hits == {i \in 1..Len(files) : files[i].key.file = suffix}
    IN  IF hits = {} THEN None
        ELSE Some(files[CHOOSE i \in hits : \A k \in hits : i <= k].key)

\* files.map(f => f.key)
KeysOf(files) == [i \in 1..Len(files) |-> files[i].key]

\* The update of the runner's success path.
DoneUpdate(files) ==
    [status |-> "done",
     progress |-> Some(DoneProgress),
     resultFiles |-> Some(KeysOf(files)),
     posterUrl |-> FindKey(files, "poster.jpg"),
     thumbnailsVtt |-> FindKey(files, "thumbnails.vtt")]

\* Mutant: the catch block takes no error for an Error.
ErrorUpdateUnknown(message) == [status |-> "error", error |-> Some(<<"Unknown error">>)]

\* Mutant: the catch block records the status alone.
ErrorUpdateNoMessage(message) == [status |-> "error"]

\* The update of the runner's catch block; every error thrown in the
\* pipeline is an Error, so its message is stored.
\* Mutant: the error update also drops the progress snapshot.
ErrorUpdateResetsProgress(message) ==
    [status |-> "error", error |-> Some(message), progress |-> None]

ErrorUpdate(message) == [status |-> "error", error |-> Some(message)]

\* Mutant: the event does not depend on the status.
WebhookPayloadCompleted(job, t) ==
    [event |-> "job.completed",
     timestamp |-> t,
     job |-> [id |-> job.id,
              status |-> job.status,
              resultKeyPrefix |-> job.resultKeyPrefix,
              posterUrl |-> job.posterUrl,
              thumbnailsVtt |-> job.thumbnailsVtt,
              resultFiles |-> job.resultFiles,
              error |-> job.error,
              createdAt |-> job.createdAt,
              updatedAt |-> job.updatedAt]]

\* The payload object sendWebhook builds from the job record.
WebhookPayload(job, t) ==
    [event |-> IF job.status = "done" THEN "job.completed" ELSE "job.failed",
     timestamp |-> t,
     job |-> [id |-> job.id,
              status |-> job.status,
              resultKeyPrefix |-> job.resultKeyPrefix,
              posterUrl |-> job.posterUrl,
              thumbnailsVtt |-> job.thumbnailsVtt,
              resultFiles |-> job.resultFiles,
              error |-> job.error,
              createdAt |-> job.createdAt,
              updatedAt |-> job.updatedAt]]

\* ------------------------------------------------------------------- state
VARIABLES
    jobs,       \* the registry of src/jobs.ts: job id -> Job
    run,        \* job id -> the locals and position of the job's async runner
    store,      \* the result bucket: the objects written, each with its writer
    scratch,    \* the work directories that exist under /tmp
    sent,       \* the webhook requests issued, in order
    responses,  \* job id -> the body POST /api/jobs answered with
    now,        \* Date.now()
    uuid,       \* the next value crypto.randomUUID() returns
    history,    \* job id -> what the external engine and the bucket did for it
    call        \* the call of a pure function under evaluation, with its result

vars == <<jobs, run, store, scratch, sent, responses, now, uuid, history, call>>

\* history of a job whose pipeline has not started: the qualities selected,
\* those whose encode exited with 0, the quality whose encode exited with
\* another code, whether the master playlist was built, whether
\* generateThumbnails was called, whether a PutObject failed, the work
\* directory named for the job, how its removal went ("none" before it), and
\* the runs of generateThumbnails that exited with a non-zero code.
NoHistory ==
    [selected |-> <<>>,
     encoded |-> <<>>,
     engineFailed |-> None,
     manifest |-> FALSE,
     thumbnails |-> FALSE,
     uploadFailed |-> FALSE,
     workDir |-> None,
     rm |-> "none",
     failedRuns |-> {},
     duration |-> None]

\* The locals of a runner that has not entered transcodeToHLS.
IdleRun ==
    [pc |-> "fetch",
     workDir |-> None,
     validQualities |-> <<>>,
     qi |-> 0,
     completedQualities |-> <<>>,
     files |-> <<>>,
     duration |-> 0,
     thumbnails |-> <<>>,
     thumbFiles |-> 0,
     thrown |-> None,
     inflight |-> {},
     failures |-> 0,
     payload |-> None,
     webhook |-> ""]

Init ==
    /\ jobs = <<>>
    /\ run = <<>>
    /\ store = {}
    /\ scratch = {}
    /\ sent = <<>>
    /\ responses = <<>>
    /\ now = 0
    /\ uuid = 1
    /\ history = <<>>
    /\ call = None

\* f with key k bound to v.
Bind(f, k, v) == [x \in DOMAIN f \cup {k} |-> IF x = k THEN v ELSE f[x]]

\* Mutant: only a completed job is notified.
AfterTerminalDoneOnly(r, job, t) ==
    IF Truthy(job.webhookUrl) /\ job.status = "done"
    THEN [IdleRun EXCEPT !.pc = "sign", !.inflight = r.inflight,
                         !.failures = r.failures,
                         !.payload = Some(WebhookPayload(job, t))]
    ELSE [IdleRun EXCEPT !.pc = "finished", !.inflight = r.inflight,
                         !.failures = r.failures]

\* The runner after its terminal update: if (job.webhookUrl) sendWebhook(...)
\* builds and serialises the payload and awaits the signing key; otherwise
\* the runner is over.  The locals of the try block are out of scope.
AfterTerminal(r, job, t) ==
    IF Truthy(job.webhookUrl)
    THEN [IdleRun EXCEPT !.pc = "sign", !.inflight = r.inflight,
                         !.failures = r.failures,
                         !.payload = Some(WebhookPayload(job, t))]
    ELSE [IdleRun EXCEPT !.pc = "finished", !.inflight = r.inflight,
                         !.failures = r.failures]

\* Mutant: the catch block publishes the files produced so far.
CatchPublishes(id, message, r) ==
    LET reg == updateJob(jobs, id,
                   [status |-> "error", error |-> Some(message),
                    resultFiles |-> Some(KeysOf(r.files))], now)
    IN  /\ jobs' = reg
        /\ run' = [run EXCEPT ![id] = AfterTerminal(r, reg[id], now)]

\* Mutant: the runner has no catch block; the error ends it.
CatchEscapes(id, message, r) ==
    /\ jobs' = jobs
    /\ run' = [run EXCEPT ![id] =
                   [IdleRun EXCEPT !.pc = "finished", !.inflight = r.inflight,
                                   !.failures = r.failures]]

\* An error reaches the catch block of the runner of job id.
Catch(id, message, r) ==
    LET reg == updateJob(jobs, id, ErrorUpdate(message), now)
    IN  /\ jobs' = reg
        /\ run' = [run EXCEPT ![id] = AfterTerminal(r, reg[id], now)]

\* Mutant: transcodeToHLS has no finally block, so an error thrown inside it
\* goes straight to the catch block of the runner.
ThrowInTranscodeNoFinally(id, message) == Catch(id, message, run[id])

\* An error thrown inside the try block of transcodeToHLS: the finally block
\* awaits rm before the error propagates.
ThrowInTranscode(id, message) ==
    /\ run' = [run EXCEPT ![id] =
                  [IdleRun EXCEPT !.pc = "cleanup", !.workDir = run[id].workDir,
                                  !.thrown = Some(message)]]
    /\ UNCHANGED jobs

\* ------------------------------------------- POST /api/jobs (src/index.ts)
\* The handler up to its return: the default prefix, createJob, and the
\* runner's synchronous start (the "processing" update and the call of
\* fetch); the handler then answers with the job object.
Post(resultKeyPrefix, webhookUrl) ==
    /\ LET prefix == IF resultKeyPrefix = None THEN <<"output/", uuid, "/">>
                     ELSE resultKeyPrefix[1]
           id == IF resultKeyPrefix = None THEN uuid + 1 ELSE uuid
           created == Bind(jobs, id, createJob(id, SourceUrl, prefix, webhookUrl, now))
           reg == updateJob(created, id,
                            [status |-> "processing",
                             progress |-> Some(DownloadingProgress)], now)
       IN  /\ jobs' = reg
           /\ run' = Bind(run, id, IdleRun)
           /\ responses' = Bind(responses, id, reg[id])
           /\ uuid' = id + 1
           /\ history' = Bind(history, id, NoHistory)
    /\ UNCHANGED <<store, scratch, sent, now, call>>

\* The submission of the one job whose whole run the specification follows.
Submit(resultKeyPrefix, webhookUrl) ==
    /\ DOMAIN jobs = {}
    /\ Post(resultKeyPrefix, webhookUrl)

\* await fetch(job.sourceUrl) settles: a transport error, a non-success
\* response, or a response whose body is then read.
FetchSource(id) ==
    /\ run[id].pc = "fetch"
    /\ \/ Catch(id, FetchError, run[id])
       \/ \E statusText \in StatusTexts :
              Catch(id, <<"Failed to download source: ", statusText>>, run[id])
       \/ /\ run' = [run EXCEPT ![id].pc = "body"]
          /\ UNCHANGED jobs
    /\ UNCHANGED <<store, scratch, sent, responses, now, uuid, history, call>>

\* await sourceResponse.arrayBuffer() settles; on success transcodeToHLS is
\* entered: it names its work directory and awaits mkdir.
ReadBody(id) ==
    /\ run[id].pc = "body"
    /\ \/ /\ Catch(id, BodyError, run[id])
          /\ UNCHANGED <<uuid, history>>
       \/ /\ run' = [run EXCEPT ![id].pc = "mkdir", ![id].workDir = Some(uuid)]
          /\ history' = [history EXCEPT ![id].workDir = Some(uuid)]
          /\ uuid' = uuid + 1
          /\ UNCHANGED jobs
    /\ UNCHANGED <<store, scratch, sent, responses, now, call>>

\* ------------------------------------------ transcodeToHLS (src/transcoder.ts)
\* await mkdir(workDir, { recursive: true })
MakeWorkDir(id) ==
    /\ run[id].pc = "mkdir"
    /\ \/ /\ ThrowInTranscode(id, FsError)
          /\ UNCHANGED scratch
       \/ /\ run' = [run EXCEPT ![id].pc = "write"]
          /\ scratch' = scratch \cup {run[id].workDir[1]}
          /\ UNCHANGED jobs
    /\ UNCHANGED <<store, sent, responses, now, uuid, history, call>>

\* await Bun.write(inputFile, sourceData)
WriteInput(id) ==
    /\ run[id].pc = "write"
    /\ \/ ThrowInTranscode(id, FsError)
       \/ /\ run' = [run EXCEPT ![id].pc = "probe"]
          /\ UNCHANGED jobs
    /\ UNCHANGED <<store, scratch, sent, responses, now, uuid, history, call>>

\* getVideoResolution settles; on success the qualities are selected and the
\* first iteration of the loop reports its progress and starts its encode.
ProbeResolution(id) ==
    /\ run[id].pc = "probe"
    /\ \/ /\ \E message \in {<<"Failed to probe video resolution">>, ParseError,
                             <<"Could not determine video resolution">>} :
                 ThrowInTranscode(id, message)
          /\ UNCHANGED history
       \/ \E height \in SourceHeights :
              LET valid == SelectQualities(DEFAULT_QUALITIES, height)
              IN  /\ jobs' = updateJob(jobs, id,
                                 [progress |-> Some(TranscodingProgress(
                                      valid[1].name, <<>>, Len(valid)))], now)
                  /\ run' = [run EXCEPT ![id].pc = "encode",
                                        ![id].validQualities = valid,
                                        ![id].qi = 1]
                  /\ history' = [history EXCEPT ![id].selected =
                                     [i \in 1..Len(valid) |-> valid[i].name]]
    /\ UNCHANGED <<store, scratch, sent, responses, now, uuid, call>>

\* Mutant: the error leaves out what FFmpeg wrote to stderr.
EncodeErrorNoStderr(quality) ==
    <<"FFmpeg failed for ", quality.name, " with exit code ", "1">>

\* The error FFmpeg's non-zero exit is turned into.
EncodeError(quality) ==
    <<"FFmpeg failed for ", quality.name, " with exit code ", "1", ": ", EngineStderr>>

\* await mkdir(qualityDir) and await proc.exited of the encode of quality qi.
Encode(id) ==
    /\ run[id].pc = "encode"
    /\ LET quality == run[id].validQualities[run[id].qi]
       IN  \/ /\ ThrowInTranscode(id, FsError)
              /\ UNCHANGED history
           \/ /\ ThrowInTranscode(id, EncodeError(quality))
              /\ history' = [history EXCEPT ![id].engineFailed = Some(quality.name)]
           \/ /\ run' = [run EXCEPT ![id].pc = "collect"]
              /\ history' = [history EXCEPT ![id].encoded = Append(@, quality.name)]
              /\ UNCHANGED jobs
    /\ UNCHANGED <<store, scratch, sent, responses, now, uuid, call>>

\* Mutant: the loop over validQualities ends after its first iteration.
MoreQualitiesNone(qi, total) == FALSE

\* for (const quality of validQualities): whether an iteration follows the
\* qi-th.
MoreQualities(qi, total) == qi < total

\* readdir and readFile of the encoded quality's files; the quality is then
\* marked completed, and either the next iteration reports and starts its
\* encode, or the master playlist is pushed, the thumbnail stage is reported
\* and generateThumbnails awaits mkdir and the duration probe.
Collect(id) ==
    /\ run[id].pc = "collect"
    /\ \/ /\ ThrowInTranscode(id, FsError)
          /\ UNCHANGED history
       \/ LET r == run[id]
              prefix == jobs[id].resultKeyPrefix
              quality == r.validQualities[r.qi]
              files == r.files \o RenditionFiles(prefix, quality)
              completed == Append(r.completedQualities, quality.name)
              total == Len(r.validQualities)
          IN  IF MoreQualities(r.qi, total)
              THEN /\ jobs' = updateJob(jobs, id,
                                 [progress |-> Some(TranscodingProgress(
                                      r.validQualities[r.qi + 1].name, completed, total))],
                                 now)
                   /\ run' = [run EXCEPT ![id].pc = "encode",
                                         ![id].qi = r.qi + 1,
                                         ![id].files = files,
                                         ![id].completedQualities = completed]
                   /\ UNCHANGED history
              ELSE /\ jobs' = updateJob(jobs, id,
                                 [progress |-> Some(TranscodingProgress(
                                      "thumbnails", completed, total))], now)
                   /\ run' = [run EXCEPT ![id].pc = "duration",
                                         ![id].files = Append(files, MasterFile(prefix)),
                                         ![id].completedQualities = completed]
                   /\ history' = [history EXCEPT ![id].manifest = TRUE,
                                                 ![id].thumbnails = TRUE]
    /\ UNCHANGED <<store, scratch, sent, responses, now, uuid, call>>

\* -------------------------------------- generateThumbnails (src/transcoder.ts)
\* Mutant: the poster is pushed whether or not its run produced it.
ReturnThumbnailsWithPoster(id, thumbnails) ==
    LET prefix == jobs[id].resultKeyPrefix
        all == IF \E i \in 1..Len(thumbnails) : thumbnails[i] = "poster.jpg"
               THEN thumbnails ELSE <<"poster.jpg">> \o thumbnails
        pushed == [i \in 1..Len(all) |-> ThumbnailFile(prefix, all[i])]
    IN  run' = [run EXCEPT ![id] =
                   [IdleRun EXCEPT !.pc = "cleanup", !.workDir = run[id].workDir,
                                   !.files = run[id].files \o pushed]]

\* generateThumbnails returns: its files are pushed, transcodeToHLS returns
\* and its finally block awaits rm.
ReturnThumbnails(id, thumbnails) ==
    LET prefix == jobs[id].resultKeyPrefix
        pushed == [i \in 1..Len(thumbnails) |-> ThumbnailFile(prefix, thumbnails[i])]
    IN  run' = [run EXCEPT ![id] =
                   [IdleRun EXCEPT !.pc = "cleanup", !.workDir = run[id].workDir,
                                   !.files = run[id].files \o pushed]]

\* Mutant: a failure of getVideoDuration is logged like a failed thumbnail
\* run, and generateThumbnails returns no file.
ProbeDurationTolerant(id) ==
    /\ run[id].pc = "duration"
    /\ \/ /\ ReturnThumbnails(id, <<>>)
          /\ UNCHANGED <<jobs, history>>
       \/ \E duration \in Durations :
              /\ run' = [run EXCEPT ![id].pc = "poster", ![id].duration = duration]
              /\ history' = [history EXCEPT ![id].duration = Some(duration)]
              /\ UNCHANGED jobs
    /\ UNCHANGED <<store, scratch, sent, responses, now, uuid, call>>

\* await mkdir(thumbDir) and getVideoDuration settle; on success the poster
\* run is spawned.
ProbeDuration(id) ==
    /\ run[id].pc = "duration"
    /\ \/ \E message \in {FsError, <<"Failed to get video duration">>, ParseError,
                          <<"Could not determine video duration">>} :
              /\ ThrowInTranscode(id, message)
              /\ UNCHANGED history
       \/ \E duration \in Durations :
              /\ run' = [run EXCEPT ![id].pc = "poster", ![id].duration = duration]
              /\ history' = [history EXCEPT ![id].duration = Some(duration)]
              /\ UNCHANGED jobs
    /\ UNCHANGED <<store, scratch, sent, responses, now, uuid, call>>

\* ------------------------------------------------------- thumbnail cue file
\* The sprite sheet has 10 columns of tiles of 160 x 90.
cols == 10
thumbWidth == 160
thumbHeight == 90

\* String(n) of a natural number, and String.prototype.padStart.
RECURSIVE ToDigits(_)
ToDigits(n) ==
    IF n < 10 THEN <<Digits[n + 1]>>
    ELSE ToDigits(n \div 10) \o <<Digits[(n % 10) + 1]>>
RECURSIVE padStart(_, _, _)
padStart(s, targetLength, padString) ==
    IF Len(s) >= targetLength THEN s
    ELSE padStart(<<padString>> \o s, targetLength, padString)

\* formatVTTTime(seconds): HH:MM:SS.mmm, one character per element.
formatVTTTime(seconds) ==
    LET hours == seconds \div 3600
        minutes == (seconds % 3600) \div 60
        secs == seconds % 60
        ms == (seconds % 1) * 1000
    IN  padStart(ToDigits(hours), 2, "0") \o <<":">> \o
        padStart(ToDigits(minutes), 2, "0") \o <<":">> \o
        padStart(ToDigits(secs), 2, "0") \o <<".">> \o
        padStart(ToDigits(ms), 3, "0")

\* Mutant: every tile is taken from the first row of the sheet.
CueRegionFirstRow(i, columns) ==
    LET col == i % columns
    IN  [x |-> col * thumbWidth, y |-> 0]

\* The corner of tile i in a sheet of the given number of columns.
CueRegion(i, columns) ==
    LET col == i % columns
        row == i \div columns
    IN  [x |-> col * thumbWidth, y |-> row * thumbHeight]

\* generateThumbnailVTT(count, interval, cols): the header and one cue per
\* frame; a cue is its two timestamps and the xywh fragment of sprites.jpg,
\* each number in decimal.
generateThumbnailVTT(count, interval, columns) ==
    [header |-> "WEBVTT",
     cues |-> [k \in 1..count |->
                  LET i == k - 1
                      startTime == i * interval
                      endTime == (i + 1) * interval
                      region == CueRegion(i, columns)
                  IN  [start |-> formatVTTTime(startTime),
                       end |-> formatVTTTime(endTime),
                       file |-> "sprites.jpg",
                       xywh |-> <<ToDigits(region.x), ToDigits(region.y),
                                  ToDigits(thumbWidth), ToDigits(thumbHeight)>>]]]

\* After the poster step: the scrub run is spawned when thumbCount > 0.
AfterPoster(id, thumbnails) ==
    IF ThumbCount(run[id].duration) > 0
    THEN run' = [run EXCEPT ![id].pc = "scrub", ![id].thumbnails = thumbnails]
    ELSE ReturnThumbnails(id, thumbnails)

\* The poster run exits: a failure is logged; a success reads poster.jpg.
Poster(id) ==
    /\ run[id].pc = "poster"
    /\ \/ /\ AfterPoster(id, run[id].thumbnails)
          /\ history' = [history EXCEPT ![id].failedRuns = @ \cup {"poster"}]
          /\ UNCHANGED jobs
       \/ /\ ThrowInTranscode(id, FsError)
          /\ UNCHANGED history
       \/ /\ AfterPoster(id, Append(run[id].thumbnails, "poster.jpg"))
          /\ UNCHANGED <<jobs, history>>
    /\ UNCHANGED <<store, scratch, sent, responses, now, uuid, call>>

\* The scrub run exits: a failure is logged; a success lists the thumb files
\* and, when there are some, spawns the tile run.
Scrub(id) ==
    /\ run[id].pc = "scrub"
    /\ \/ /\ ReturnThumbnails(id, run[id].thumbnails)
          /\ history' = [history EXCEPT ![id].failedRuns = @ \cup {"scrub"}]
          /\ UNCHANGED jobs
       \/ /\ ThrowInTranscode(id, FsError)
          /\ UNCHANGED history
       \/ \E count \in ThumbListings :
              /\ IF count > 0
                 THEN run' = [run EXCEPT ![id].pc = "sprite", ![id].thumbFiles = count]
                 ELSE ReturnThumbnails(id, run[id].thumbnails)
              /\ UNCHANGED <<jobs, history>>
    /\ UNCHANGED <<store, scratch, sent, responses, now, uuid, call>>

\* The tile run exits: only a success adds sprites.jpg and thumbnails.vtt.
Sprite(id) ==
    /\ run[id].pc = "sprite"
    /\ \/ /\ ReturnThumbnails(id, run[id].thumbnails)
          /\ history' = [history EXCEPT ![id].failedRuns = @ \cup {"sprite"}]
          /\ UNCHANGED jobs
       \/ /\ ThrowInTranscode(id, FsError)
          /\ UNCHANGED history
       \/ /\ ReturnThumbnails(id, run[id].thumbnails \o <<"sprites.jpg", "thumbnails.vtt">>)
          /\ UNCHANGED <<jobs, history>>
    /\ UNCHANGED <<store, scratch, sent, responses, now, uuid, call>>

\* ------------------------------------------------- finally, upload, terminal
\* uploadMultipleResults(files): every uploadResult is started.
StartUpload(id) ==
    LET files == run[id].files
    IN  /\ jobs' = updateJob(jobs, id, [progress |-> Some(UploadingProgress(files))], now)
        /\ run' = [run EXCEPT ![id] =
                      [IdleRun EXCEPT !.pc = "upload", !.files = files,
                                      !.inflight = {files[i] : i \in 1..Len(files)}]]

\* await rm(workDir, { recursive: true, force: true }) settles (a failure is
\* logged); then the pending error reaches the runner's catch block, or the
\* files are returned and the upload stage starts.
Cleanup(id) ==
    /\ run[id].pc = "cleanup"
    /\ \/ /\ scratch' = scratch \ {run[id].workDir[1]}
          /\ history' = [history EXCEPT ![id].rm = "removed"]
       \/ /\ UNCHANGED scratch
          /\ history' = [history EXCEPT ![id].rm = "failed"]
    /\ IF run[id].thrown # None
       THEN Catch(id, run[id].thrown[1], run[id])
       ELSE StartUpload(id)
    /\ UNCHANGED <<store, sent, responses, now, uuid, call>>

\* Promise.all resolved: the "done" update, then the notification.
Complete(id, r) ==
    LET reg == updateJob(jobs, id, DoneUpdate(r.files), now)
    IN  /\ jobs' = reg
        /\ run' = [run EXCEPT ![id] = AfterTerminal(r, reg[id], now)]

\* Mutant: Promise.allSettled in place of Promise.all: a failed PutObject
\* rejects nothing and the runner goes on when all have settled.
UploadSettleAllSettled(id, file) ==
    /\ file \in run[id].inflight
    /\ LET r == [run[id] EXCEPT !.inflight = @ \ {file}]
       IN  /\ \/ /\ store' = store \cup {[writer |-> id, key |-> file.key]}
                 /\ UNCHANGED history
              \/ /\ run[id].failures < MaxUploadFailures
                 /\ UNCHANGED store
                 /\ history' = [history EXCEPT ![id].uploadFailed = TRUE]
           /\ IF r.pc = "upload" /\ r.inflight = {}
              THEN Complete(id, r)
              ELSE /\ run' = [run EXCEPT ![id] = r]
                   /\ UNCHANGED jobs
    /\ UNCHANGED <<scratch, sent, responses, now, uuid, call>>

\* One PutObject of job id settles.  While the runner awaits Promise.all, the
\* first failure rejects it and the last success resolves it; the other
\* uploads stay in flight and settle later.
UploadSettle(id, file) ==
    /\ file \in run[id].inflight
    /\ LET r == [run[id] EXCEPT !.inflight = @ \ {file}]
           f == [r EXCEPT !.failures = @ + 1]
       IN  \/ /\ store' = store \cup {[writer |-> id, key |-> file.key]}
              /\ IF r.pc = "upload" /\ r.inflight = {}
                 THEN Complete(id, r)
                 ELSE /\ run' = [run EXCEPT ![id] = r]
                      /\ UNCHANGED jobs
              /\ UNCHANGED history
           \/ /\ run[id].failures < MaxUploadFailures
              /\ UNCHANGED store
              /\ IF f.pc = "upload"
                 THEN Catch(id, S3Error, f)
                 ELSE /\ run' = [run EXCEPT ![id] = f]
                      /\ UNCHANGED jobs
              /\ history' = [history EXCEPT ![id].uploadFailed = TRUE]
    /\ UNCHANGED <<scratch, sent, responses, now, uuid, call>>

\* ------------------------------------------------- sendWebhook (src/index.ts)
\* JSON.stringify(payload): the members in insertion order, a member whose
\* value is undefined left out.
JSONStringify(payload) ==
    LET job == payload.job
        optional == {"posterUrl", "thumbnailsVtt", "resultFiles", "error"}
        member(k) == IF k \in optional THEN <<k, job[k][1]>> ELSE <<k, job[k]>>
        keys == SelectSeq(<<"id", "status", "resultKeyPrefix", "posterUrl", "thumbnailsVtt",
                            "resultFiles", "error", "createdAt", "updatedAt">>,
                          LAMBDA k : k \in optional => job[k] # None)
    IN  << <<"event", payload.event>>,
           <<"timestamp", payload.timestamp>>,
           <<"job", [i \in 1..Len(keys) |-> member(keys[i])]>> >>

\* crypto.subtle.sign("HMAC", key, message) with a SHA-256 key imported from
\* `secret`: a term over the key and the message (two different pairs give
\* two different digests).
HmacSha256(secret, message) == <<"hmac-sha256", secret, message>>

\* The lower-case hexadecimal text of a digest.
Hex(digest) == <<"hex", digest>>

\* Mutant: the key is imported from the empty string.
generateWebhookSignatureUnkeyed(payload, secret) == Hex(HmacSha256("", payload))

generateWebhookSignature(payload, secret) == Hex(HmacSha256(secret, payload))

\* The signing key is imported and the body signed; fetch is then called with
\* the body and the two headers.  An empty key is refused by importKey, which
\* the catch block of sendWebhook logs.
Sign(id) ==
    /\ run[id].pc = "sign"
    /\ IF WebhookSecret = ""
       THEN /\ run' = [run EXCEPT ![id].pc = "finished", ![id].payload = None,
                                  ![id].webhook = "threw"]
            /\ UNCHANGED sent
       ELSE /\ sent' = Append(sent,
                  [url |-> jobs[id].webhookUrl[1],
                   body |-> run[id].payload[1],
                   bytes |-> JSONStringify(run[id].payload[1]),
                   signature |-> generateWebhookSignature(
                                     JSONStringify(run[id].payload[1]), WebhookSecret),
                   timestamp |-> run[id].payload[1].timestamp])
            /\ run' = [run EXCEPT ![id].pc = "post", ![id].payload = None]
    /\ UNCHANGED <<jobs, store, scratch, responses, now, uuid, history, call>>

\* Mutant: sendWebhook lets a transport error escape, and it reaches the
\* catch block of the runner.
LogDeliveryRethrows(id, outcome) ==
    /\ run' = [run EXCEPT ![id].pc = "finished", ![id].webhook = outcome]
    /\ IF outcome = "threw"
       THEN jobs' = updateJob(jobs, id, ErrorUpdate(FetchError), now)
       ELSE UNCHANGED jobs

\* Mutant: a non-success response of the target is recorded on the job.
LogDeliveryRecordsStatus(id, outcome) ==
    /\ run' = [run EXCEPT ![id].pc = "finished", ![id].webhook = outcome]
    /\ IF outcome = "status"
       THEN jobs' = updateJob(jobs, id, [error |-> Some(<<"Webhook failed">>)], now)
       ELSE UNCHANGED jobs

\* What sendWebhook does with the outcome of the delivery: it logs it.
LogDelivery(id, outcome) ==
    /\ run' = [run EXCEPT ![id].pc = "finished", ![id].webhook = outcome]
    /\ UNCHANGED jobs

\* await fetch(webhookUrl, ...) settles: a success response, a non-success
\* response, or a transport error.
Deliver(id) ==
    /\ run[id].pc = "post"
    /\ \E outcome \in {"ok", "status", "threw"} : LogDelivery(id, outcome)
    /\ UNCHANGED <<store, scratch, sent, responses, now, uuid, history, call>>

\* ------------------------------------------------------------- environment
\* A millisecond passes.
Tick ==
    /\ now < MaxClock
    /\ now' = now + 1
    /\ UNCHANGED <<jobs, run, store, scratch, sent, responses, uuid, history, call>>

Next ==
    \/ \E p \in ResultKeyPrefixes, w \in WebhookUrls : Submit(p, w)
    \/ \E id \in DOMAIN run : FetchSource(id)
    \/ \E id \in DOMAIN run : ReadBody(id)
    \/ \E id \in DOMAIN run : MakeWorkDir(id)
    \/ \E id \in DOMAIN run : WriteInput(id)
    \/ \E id \in DOMAIN run : ProbeResolution(id)
    \/ \E id \in DOMAIN run : Encode(id)
    \/ \E id \in DOMAIN run : Collect(id)
    \/ \E id \in DOMAIN run : ProbeDuration(id)
    \/ \E id \in DOMAIN run : Poster(id)
    \/ \E id \in DOMAIN run : Scrub(id)
    \/ \E id \in DOMAIN run : Sprite(id)
    \/ \E id \in DOMAIN run : Cleanup(id)
    \/ \E id \in DOMAIN run : \E file \in run[id].inflight : UploadSettle(id, file)
    \/ \E id \in DOMAIN run : Sign(id)
    \/ \E id \in DOMAIN run : Deliver(id)
    \/ Tick

Spec == Init /\ [][Next]_vars

\* The steps of a runner: each is the settling of the promise it awaits.
Runner ==
    \E id \in DOMAIN run :
        \/ FetchSource(id)
        \/ ReadBody(id)
        \/ MakeWorkDir(id)
        \/ WriteInput(id)
        \/ ProbeResolution(id)
        \/ Encode(id)
        \/ Collect(id)
        \/ ProbeDuration(id)
        \/ Poster(id)
        \/ Scrub(id)
        \/ Sprite(id)
        \/ Cleanup(id)
        \/ \E file \in run[id].inflight : UploadSettle(id, file)
        \/ Sign(id)
        \/ Deliver(id)

\* Every promise a runner awaits settles in the end.
Live == Init /\ [][Next]_vars /\ WF_vars(Runner)

\* ------------------------------------------------ the pure functions alone
\* Functions evaluates one pure function of src/transcoder.ts on one input.
\* The ladders transcodeToHLS is evaluated on: every non-empty selection of
\* entries of the default ladder, in ascending order of height.
RECURSIVE Subsequences(_)
Subsequences(seq) ==
    IF Len(seq) = 0 THEN {<<>>}
    ELSE LET rest == Subsequences(Tail(seq))
         IN  rest \cup {<<Head(seq)>> \o t : t \in rest}
Ladders == Subsequences(DEFAULT_QUALITIES) \ {<<>>}

\* The input heights getVideoResolution reports in these evaluations.
InputHeights == {144, 359, 360, 361, 480, 719, 720, 1080, 1440, 2160, 4320}

\* The bitrate strings parseBitrate is evaluated on: every string of at most
\* MaxBitrateLen characters of BitrateChars, and some with a fraction.
BitrateChars == {"0", "2", "8", "k", "K", "m", "M", "x"}
RECURSIVE StringsUpTo(_)
StringsUpTo(n) ==
    IF n = 0 THEN {<<>>}
    ELSE LET shorter == StringsUpTo(n - 1)
         IN  shorter \cup {Append(t, c) : t \in shorter, c \in BitrateChars}
BitrateStrings ==
    StringsUpTo(MaxBitrateLen)
        \cup {DEFAULT_QUALITIES[i].videoBitrate : i \in 1..Len(DEFAULT_QUALITIES)}
        \cup {DEFAULT_QUALITIES[i].audioBitrate : i \in 1..Len(DEFAULT_QUALITIES)}
        \cup { <<"2", "M">>, <<"2", ".", "5", "M">>, <<"1", ".", "5", "k">>,
               <<"0", ".", "5">>, <<"2", ".">>, <<".", "5">>, <<"2", ".", "5", ".", "5", "k">>,
               <<"-", "5", "k">>, <<"1", "e", "3">>, <<"8", "0", "0", " ", "k">> }

\* transcodeToHLS selects the qualities of a ladder for an input height.
CallSelect ==
    /\ call = None
    /\ \E ladder \in Ladders, height \in InputHeights :
           call' = Some([fn |-> "select", ladder |-> ladder, height |-> height,
                         result |-> SelectQualities(ladder, height)])
    /\ UNCHANGED <<jobs, run, store, scratch, sent, responses, now, uuid, history>>

\* transcodeToHLS builds the master playlist of the qualities it selected.
CallMasterPlaylist ==
    /\ call = None
    /\ \E ladder \in Ladders, height \in InputHeights :
           call' = Some([fn |-> "generateMasterPlaylist",
                         ladder |-> ladder, height |-> height,
                         result |-> generateMasterPlaylist(
                                        SelectQualities(ladder, height), <<"custom/">>)])
    /\ UNCHANGED <<jobs, run, store, scratch, sent, responses, now, uuid, history>>

\* generateMasterPlaylist parses a bitrate.
CallParseBitrate ==
    /\ call = None
    /\ \E bitrate \in BitrateStrings :
           call' = Some([fn |-> "parseBitrate", bitrate |-> bitrate,
                         result |-> parseBitrate(bitrate)])
    /\ UNCHANGED <<jobs, run, store, scratch, sent, responses, now, uuid, history>>

\* The cue file of up to MaxFrames frames, for the default interval of ten
\* seconds and for one of ten minutes, as generateThumbnails calls it.
Intervals == {ThumbnailInterval, 600}
CallThumbnailVTT ==
    /\ call = None
    /\ \E count \in 0..MaxFrames, interval \in Intervals :
           call' = Some([fn |-> "generateThumbnailVTT", count |-> count,
                         interval |-> interval,
                         result |-> generateThumbnailVTT(count, interval, cols)])
    /\ UNCHANGED <<jobs, run, store, scratch, sent, responses, now, uuid, history>>

Calls ==
    \/ CallSelect
    \/ CallMasterPlaylist
    \/ CallParseBitrate
    \/ CallThumbnailVTT

Functions == Init /\ [][Calls]_vars

\* ------------------------------------------------- several jobs, and queries
\* A submission while other jobs are in flight.
SubmitAmong(resultKeyPrefix, webhookUrl) ==
    /\ Cardinality(DOMAIN jobs) < MaxJobs
    /\ Post(resultKeyPrefix, webhookUrl)

\* The ids a client asks for: every id issued so far, and 0, which is none.
QueryIds == 0..uuid

\* getJob(id), and listJobs(): the values of the map in insertion order,
\* which is the order of the ids.
getJob(id) == IF id \in DOMAIN jobs THEN Some(jobs[id]) ELSE None
RECURSIVE ValuesFrom(_)
ValuesFrom(ids) ==
    IF ids = {} THEN <<>>
    ELSE LET id == CHOOSE i \in ids : \A k \in ids : i <= k
         IN  <<jobs[id]>> \o ValuesFrom(ids \ {id})
listJobs == ValuesFrom(DOMAIN jobs)

\* GET /api/jobs/:id answers with the record, or 404.
GetJob(id) ==
    /\ call' = Some([fn |-> "getJob", id |-> id, result |-> getJob(id)])
    /\ UNCHANGED <<jobs, run, store, scratch, sent, responses, now, uuid, history>>

\* GET /api/jobs answers with every record.
ListJobs ==
    /\ call' = Some([fn |-> "listJobs", id |-> 0, result |-> listJobs])
    /\ UNCHANGED <<jobs, run, store, scratch, sent, responses, now, uuid, history>>

\* updateJob for an id the registry does not hold.
UpdateUnknown(id, updates) ==
    /\ id \notin DOMAIN jobs
    /\ jobs' = updateJob(jobs, id, updates, now)
    /\ call' = Some([fn |-> "updateJob", id |-> id, result |-> None])
    /\ UNCHANGED <<run, store, scratch, sent, responses, now, uuid, history>>

\* Several jobs in their download stage, with queries in between.  The jobs
\* share one prefix and have no webhook.
Concurrent ==
    \/ SubmitAmong(Some(<<"custom/">>), None)
    \/ \E id \in DOMAIN run : FetchSource(id)
    \/ \E id \in QueryIds : GetJob(id)
    \/ ListJobs
    \/ \E id \in QueryIds : UpdateUnknown(id, ErrorUpdate(BodyError))
    \/ Tick

Registry == Init /\ [][Concurrent]_vars

\* ------------------------------------------------------------------ claims
Terminal == {"done", "error"}

\* The objects of the bucket written by job id.
WrittenBy(id) == {o \in store : o.writer = id}

\* The webhook requests issued for job id.
SentFor(id) == {i \in 1..Len(sent) : sent[i].body.job.id = id}

\* Whether a stored error message, the concatenation of its parts, is empty.
EmptyMessage(message) == \A i \in 1..Len(message) : message[i] = ""

\* C1: a job's stored status moves only pending -> processing -> done or
\* pending -> processing -> error: a step leaves it as it is or takes one of
\* these moves, a new record starts at pending or processing, and done and
\* error are never left.
C1_StatusMovesForward ==
    [][/\ \A id \in DOMAIN jobs :
              LET old == jobs[id].status
                  new == jobs'[id].status
              IN  \/ new = old
                  \/ old = "pending" /\ new = "processing"
                  \/ old = "processing" /\ new \in Terminal
       /\ \A id \in DOMAIN jobs' \ DOMAIN jobs :
              jobs'[id].status \in {"pending", "processing"}]_vars

\* A job that reached done and whose runner is over after a failed delivery.
C1_Witness ==
    \E id \in DOMAIN jobs :
        /\ jobs[id].status = "done"
        /\ run[id].pc = "finished"
        /\ run[id].webhook = "threw"

C3_ResponsePending ==
    \A id \in DOMAIN responses :
        /\ responses[id].status = "pending"
        /\ responses[id].progress = None

\* The percentage of a job's progress snapshot.
Percentage(job) == job.progress[1].percentage

\* C4: the percentage of a job's progress snapshot never decreases from one
\* update to the next, is never below 0, and is 100 when the job is done.
C4_PercentageMonotone ==
    [][\A id \in DOMAIN jobs' :
           LET new == jobs'[id]
           IN  /\ new.progress # None => Percentage(new) >= 0
               /\ new.status = "done" => new.progress # None /\ Percentage(new) = 100
               /\ id \in DOMAIN jobs /\ jobs[id].progress # None =>
                      new.progress # None /\ Percentage(new) >= Percentage(jobs[id])]_vars

\* A done job at 100 whose two qualities were each reported.
C4_Witness ==
    \E id \in DOMAIN jobs :
        /\ jobs[id].status = "done"
        /\ Percentage(jobs[id]) = 100
        /\ Len(history[id].selected) = 2

\* The place of a runner in its pipeline: every stage has one rank, an encode
\* and its collection one per quality.
Rank(r) ==
    CASE r.pc = "fetch" -> 1
      [] r.pc = "body" -> 2
      [] r.pc = "mkdir" -> 3
      [] r.pc = "write" -> 4
      [] r.pc = "probe" -> 5
      [] r.pc = "encode" -> 4 + 2 * r.qi
      [] r.pc = "collect" -> 5 + 2 * r.qi
      [] r.pc = "duration" -> 20
      [] r.pc = "poster" -> 21
      [] r.pc = "scrub" -> 22
      [] r.pc = "sprite" -> 23
      [] r.pc = "cleanup" -> 24
      [] r.pc = "upload" -> 25
      [] r.pc = "sign" -> 26
      [] r.pc = "post" -> 27
      [] r.pc = "finished" -> 28

\* The messages of the failures of the source fetch.
FetchFailures == {FetchError} \cup {<<"Failed to download source: ", t>> : t \in StatusTexts}

\* The messages of the failures of the resolution probe.
ProbeFailures ==
    {<<"Failed to probe video resolution">>, ParseError, <<"Could not determine video resolution">>}

\* C5: a failure of the source fetch, of the resolution probe, of an encode or
\* of the upload takes the job from processing to error by the one update of
\* the catch block, which stores the message of that failure (an error thrown
\* inside the transcoder waits for the removal of the work directory, the job
\* unchanged meanwhile); and a runner never goes back to a stage: its place
\* in the pipeline only advances, and after the error update it only
\* notifies.
C5_FailureMovesToError ==
    [][\A id \in DOMAIN run :
           LET r == run[id]
               next == run'[id]
               job == jobs[id]
               after == jobs'[id]
           IN  /\ Rank(next) >= Rank(r)
               /\ job.status \in Terminal => next.pc \in {"sign", "post", "finished"}
               /\ r.pc = "probe" /\ next.pc \notin {"probe", "encode"} =>
                      next.pc = "cleanup" /\ next.thrown # None
                      /\ next.thrown[1] \in ProbeFailures
               /\ r.pc = "encode" /\ history'[id].engineFailed # None =>
                      next.pc = "cleanup"
                      /\ next.thrown = Some(EncodeError(r.validQualities[r.qi]))
               /\ r.thrown = None /\ next.thrown # None =>
                      next.pc = "cleanup" /\ after = job
               /\ r.thrown # None /\ next # r =>
                      after.status = "error" /\ after.error = r.thrown
               /\ r.pc = "fetch" /\ next.pc \notin {"fetch", "body"} =>
                      after.status = "error" /\ after.error # None
                      /\ after.error[1] \in FetchFailures
               /\ r.pc = "upload" /\ history'[id].uploadFailed =>
                      after.status = "error" /\ after.error = Some(S3Error)
               /\ job.status # "error" /\ after.status = "error" =>
                      /\ job.status = "processing"
                      /\ r.pc \in {"fetch", "body", "cleanup", "upload"}
                      /\ [after EXCEPT !.status = job.status, !.error = job.error,
                                       !.updatedAt = job.updatedAt] = job]_vars

\* A job in error after a non-success response of the source fetch.
C5_Witness ==
    \E id \in DOMAIN jobs :
        /\ jobs[id].status = "error"
        /\ jobs[id].error = Some(<<"Failed to download source: ", "Not Found">>)

\* C6: a job in error has a non-empty error message, and a done job has no
\* error message.
C6_ErrorMessage ==
    \A id \in DOMAIN jobs :
        /\ jobs[id].status = "error" =>
               jobs[id].error # None /\ ~EmptyMessage(jobs[id].error[1])
        /\ jobs[id].status = "done" => jobs[id].error = None

\* A job in error after the resolution probe found no video stream.
C6_Witness ==
    \E id \in DOMAIN jobs :
        /\ jobs[id].status = "error"
        /\ jobs[id].error = Some(<<"Could not determine video resolution">>)

\* The keys a record lists as its result files.
ResultKeys(job) == {job.resultFiles[1][i] : i \in 1..Len(job.resultFiles[1])}

\* C7: a job is done only if every selected quality was encoded with exit
\* code 0, the master playlist was built, generateThumbnails was called, and
\* every PutObject of the job succeeded; its resultFiles then lists exactly
\* the keys of the objects the job wrote, the master playlist and the files
\* of every selected quality among them.
C7_DoneRequires ==
    \A id \in DOMAIN jobs :
        jobs[id].status = "done" =>
            LET h == history[id]
                job == jobs[id]
            IN  /\ Len(h.selected) > 0
                /\ h.encoded = h.selected
                /\ h.engineFailed = None
                /\ h.manifest
                /\ h.thumbnails
                /\ ~h.uploadFailed
                /\ run[id].inflight = {}
                /\ job.resultFiles # None
                /\ ResultKeys(job) = {o.key : o \in WrittenBy(id)}
                /\ FileKey(job.resultKeyPrefix, "", "master.m3u8") \in ResultKeys(job)
                /\ \A i \in 1..Len(h.selected), k \in 1..Len(RenditionListing) :
                       FileKey(job.resultKeyPrefix, h.selected[i], RenditionListing[k])
                           \in ResultKeys(job)

\* A done job with two qualities, a poster and scrub thumbnails.
C7_Witness ==
    \E id \in DOMAIN jobs :
        /\ jobs[id].status = "done"
        /\ Len(history[id].selected) = 2
        /\ jobs[id].posterUrl # None
        /\ jobs[id].thumbnailsVtt # None

\* C8: once the encode of a selected quality has exited with a non-zero code,
\* the job is in error as soon as the work directory's removal has settled,
\* its error message contains what FFmpeg wrote to stderr, and the bucket
\* holds no object written by the job, whatever was encoded before.
C8_EncodeFailure ==
    \A id \in DOMAIN jobs :
        history[id].engineFailed # None =>
            /\ WrittenBy(id) = {}
            /\ run[id].inflight = {}
            /\ jobs[id].resultFiles = None
            /\ IF run[id].pc = "cleanup"
               THEN jobs[id].status = "processing"
               ELSE /\ jobs[id].status = "error"
                    /\ \E i \in 1..Len(jobs[id].error[1]) :
                           jobs[id].error[1][i] = EngineStderr

\* The encode of 480p failed after 360p was encoded, and the runner is over.
C8_Witness ==
    \E id \in DOMAIN jobs :
        /\ history[id].engineFailed = Some("480p")
        /\ history[id].encoded = <<"360p">>
        /\ jobs[id].status = "error"
        /\ run[id].pc = "finished"

\* C9, strong form: the bucket holds no object written by a job in error.
C9_NoArtifactOfFailedJob ==
    \A id \in DOMAIN jobs :
        jobs[id].status = "error" => WrittenBy(id) = {}

\* C9, weak form: a job in error publishes no result in its record
\* (resultFiles, posterUrl and thumbnailsVtt are unset), and the bucket holds
\* objects written by it only if one of its PutObjects failed, that is, only
\* after a failure of the upload stage, whose other uploads are not undone.
C9_ErrorPublishesNothing ==
    \A id \in DOMAIN jobs :
        jobs[id].status = "error" =>
            /\ jobs[id].resultFiles = None
            /\ jobs[id].posterUrl = None
            /\ jobs[id].thumbnailsVtt = None
            /\ WrittenBy(id) # {} => history[id].uploadFailed

\* A job in error after an upload failure, some of its objects in the bucket
\* and no upload in flight any more.
C9_Witness ==
    \E id \in DOMAIN jobs :
        /\ jobs[id].status = "error"
        /\ history[id].uploadFailed
        /\ WrittenBy(id) # {}
        /\ run[id].inflight = {}

\* The fields of a record a notification reports.
Outcome(job) ==
    <<job.status, job.error, job.resultFiles, job.posterUrl, job.thumbnailsVtt>>

\* C10: the step in which a delivery fails (a non-success response or a
\* transport error) leaves the job record as it is, and the runner just ends:
\* the record's status, error and artifact fields are still those the
\* notification reported.
C10_FailedDeliveryIsolated ==
    [][\A id \in DOMAIN run :
           /\ run[id].pc \in {"sign", "post"} =>
                  /\ jobs'[id] = jobs[id]
                  /\ run'[id].pc \in {"sign", "post", "finished"}
           /\ run[id].pc = "post" /\ run'[id].webhook \in {"status", "threw"} =>
                  /\ run'[id].pc = "finished"
                  /\ \A i \in SentFor(id) : Outcome(jobs'[id]) = Outcome(sent[i].body.job)]_vars

\* A done job whose notification got a non-success response.
C10_Witness ==
    \E id \in DOMAIN jobs :
        /\ run[id].pc = "finished"
        /\ run[id].webhook = "status"
        /\ jobs[id].status = "done"

\* C11: for a ladder of ascending heights and an input height H, the
\* qualities selected are exactly the entries of the ladder whose height is
\* at most H, in ladder order; when there is none, the selection is the
\* first entry alone; the selection is never empty.
C11_Selection ==
    call # None /\ call[1].fn = "select" =>
        LET ladder == call[1].ladder
            H == call[1].height
            result == call[1].result
            fits == {i \in 1..Len(ladder) : ladder[i].height <= H}
        IN  /\ \A i \in 1..(Len(ladder) - 1) : ladder[i].height < ladder[i + 1].height
            /\ Len(result) > 0
            /\ fits = {} => result = <<ladder[1]>>
            /\ fits # {} =>
                   /\ Len(result) = Cardinality(fits)
                   /\ \A i \in fits : \E k \in 1..Len(result) : result[k] = ladder[i]
                   /\ \A k \in 1..Len(result) : result[k].height <= H
                   /\ \A k \in 1..(Len(result) - 1) :
                          result[k].height < result[k + 1].height

\* A selection that fell back to the lowest entry of a ladder of several
\* entries, all above the input height.
C11_Witness ==
    /\ call # None
    /\ call[1].fn = "select"
    /\ Len(call[1].ladder) > 1
    /\ call[1].ladder[1].height > call[1].height
    /\ call[1].result = <<call[1].ladder[1]>>

\* video bitrate + audio bitrate of the entries of the default ladder, in
\* bits per second.
LadderBandwidth ==
    [q \in {"360p", "480p", "720p", "1080p", "1440p", "2160p"} |->
        CASE q = "360p"  -> 800000 + 96000
          [] q = "480p"  -> 1400000 + 128000
          [] q = "720p"  -> 2800000 + 128000
          [] q = "1080p" -> 5000000 + 192000
          [] q = "1440p" -> 9000000 + 192000
          [] q = "2160p" -> 16000000 + 256000]

\* Whether a bitrate string is one or more digits.
AllDigits(b) == Len(b) > 0 /\ \A i \in 1..Len(b) : IsDigit(b[i])

\* C12: the master playlist has one stream entry per selected quality and
\* none for another, in the ascending order of the selection, each with
\* bandwidth = video bitrate + audio bitrate and the URI of the quality's own
\* playlist; for input height 1080 and the default ladder the entries are
\* 360p, 480p, 720p, 1080p.  A bitrate of digits is its number, times 1000
\* with the suffix k and times 1000000 with the suffix m (either case); a
\* string of another form is 0.
C12_Manifest ==
    call # None =>
        /\ call[1].fn = "generateMasterPlaylist" =>
               LET ladder == call[1].ladder
                   H == call[1].height
                   streams == call[1].result.streams
                   fits == {i \in 1..Len(ladder) : ladder[i].height <= H}
                   selected == IF fits = {} THEN {1} ELSE fits
               IN  /\ Len(streams) = Cardinality(selected)
                   /\ \A i \in 1..Len(ladder) :
                          i \in selected <=>
                              \E k \in 1..Len(streams) : streams[k].name = ladder[i].name
                   /\ \A k \in 1..(Len(streams) - 1) :
                          streams[k].resolution[2] < streams[k + 1].resolution[2]
                   /\ \A k \in 1..Len(streams) :
                          /\ streams[k].bandwidth = LadderBandwidth[streams[k].name]
                          /\ streams[k].uri = <<streams[k].name, "/playlist.m3u8">>
                   /\ ladder = DEFAULT_QUALITIES /\ H = 1080 =>
                          [k \in 1..Len(streams) |-> streams[k].name]
                              = <<"360p", "480p", "720p", "1080p">>
        /\ call[1].fn = "parseBitrate" =>
               LET b == call[1].bitrate
                   n == Len(b)
                   result == call[1].result
                   body == SubSeq(b, 1, n - 1)
                   plain == \A i \in 1..n : b[i] # "."
               IN  /\ b = <<"8", "0", "0", "k">> => result = 800000
                   /\ b = <<"5", "0", "0", "0", "k">> => result = 5000000
                   /\ b = <<"2", "M">> => result = 2000000
                   /\ b = <<"2", ".", "5", "M">> => result = 2500000
                   /\ b = <<"1", ".", "5", "k">> => result = 1500
                   /\ AllDigits(b) => result = DigitsValue(b)
                   /\ n > 1 /\ AllDigits(body) /\ b[n] \in {"k", "K"} =>
                          result = 1000 * DigitsValue(body)
                   /\ n > 1 /\ AllDigits(body) /\ b[n] \in {"m", "M"} =>
                          result = 1000000 * DigitsValue(body)
                   /\ /\ plain
                      /\ ~AllDigits(b)
                      /\ ~(n > 1 /\ AllDigits(body) /\ b[n] \in {"k", "K", "m", "M"})
                      => result = 0
                   /\ b \in {<<"2", ".">>, <<".", "5">>, <<"2", ".", "5", ".", "5", "k">>} =>
                          result = 0

\* The master playlist of the default ladder for an input of height 1080:
\* four entries, the two highest qualities left out.
C12_Witness ==
    /\ call # None
    /\ call[1].fn = "generateMasterPlaylist"
    /\ call[1].ladder = DEFAULT_QUALITIES
    /\ call[1].height = 1080
    /\ Len(call[1].result.streams) = 4

\* C13: a job submitted without resultKeyPrefix (every prefix other than the
\* request's "custom/" is a default one) has the prefix output/<id>/ of its
\* own id.
C13_DefaultPrefix ==
    \A id \in DOMAIN jobs :
        jobs[id].resultKeyPrefix # <<"custom/">> =>
            jobs[id].resultKeyPrefix = <<"output/", jobs[id].id, "/">>

\* C14: every webhook request issued carries the event job.completed exactly
\* when the status of the job in its payload is done, and job.failed exactly
\* when it is error; that status is done or error, and it is the status the
\* registry holds for the job when the request is issued and from then on.
C14_EventMatchesStatus ==
    \A i \in 1..Len(sent) :
        LET body == sent[i].body
        IN  /\ body.event \in {"job.completed", "job.failed"}
            /\ body.event = "job.completed" <=> body.job.status = "done"
            /\ body.event = "job.failed" <=> body.job.status = "error"
            /\ body.job.status \in Terminal
            /\ body.job.id \in DOMAIN jobs
            /\ jobs[body.job.id].status = body.job.status

\* A job.failed notification issued for a job in error.
C14_Witness ==
    \E i \in 1..Len(sent) :
        /\ sent[i].body.event = "job.failed"
        /\ jobs[sent[i].body.job.id].status = "error"

\* The bodies a receiver may get in place of `bytes`: one member renamed, the
\* last member cut off, or a member added.
Tampered(bytes) ==
    {[bytes EXCEPT ![k] = <<"tampered", bytes[k][2]>>] : k \in 1..Len(bytes)}
        \cup {SubSeq(bytes, 1, Len(bytes) - 1), Append(bytes, <<"extra", 0>>)}

\* C15: the X-Webhook-Signature of every request issued is the hex HMAC-SHA-256
\* under the configured secret of the very bytes sent as its body, which are
\* the serialisation of its payload; its X-Webhook-Timestamp is the timestamp
\* inside the body; a receiver recomputing the signature over the body with
\* the secret gets the one sent, and over a tampered body another one.
C15_Signature ==
    \A i \in 1..Len(sent) :
        LET request == sent[i]
        IN  /\ request.bytes = JSONStringify(request.body)
            /\ request.signature = Hex(HmacSha256(WebhookSecret, request.bytes))
            /\ request.timestamp = request.body.timestamp
            /\ <<"timestamp", request.timestamp>> = request.bytes[2]
            /\ \A other \in Tampered(request.bytes) :
                   Hex(HmacSha256(WebhookSecret, other)) # request.signature

\* A signed notification of a completed job, after the clock has advanced.
C15_Witness ==
    \E i \in 1..Len(sent) :
        /\ sent[i].body.event = "job.completed"
        /\ sent[i].timestamp > 0
        /\ sent[i].signature = Hex(HmacSha256(WebhookSecret, sent[i].bytes))

\* C16: while the step of a job's progress snapshot is transcoding, its
\* percentage p is round(60 * c / N) + 10 for the stored total N and the
\* length c of the stored completed list, with 0 <= c <= N, hence within
\* 10..70, and it is 70 when the current quality is "thumbnails"; the
\* percentage is 0 in the downloading step, 80 in uploading and 100 in done.
C16_PercentageFormula ==
    \A id \in DOMAIN jobs :
        jobs[id].progress # None =>
            LET progress == jobs[id].progress[1]
                p == progress.percentage
            IN  /\ progress.step = "transcoding" =>
                       LET N == progress.totalQualities[1]
                           c == Len(progress.completedQualities[1])
                       IN  /\ N > 0 /\ 0 <= c /\ c <= N
                           /\ (2 * (p - 10) - 1) * N <= 120 * c
                           /\ 120 * c < (2 * (p - 10) + 1) * N
                           /\ 10 <= p /\ p <= 70
                           /\ progress.currentQuality = Some("thumbnails") => p = 70
                /\ progress.step = "downloading" => p = 0
                /\ progress.step = "uploading" => p = 80
                /\ progress.step = "done" => p = 100

\* A job of two qualities with one completed, at 40 percent.
C16_Witness ==
    \E id \in DOMAIN jobs :
        /\ jobs[id].progress # None
        /\ jobs[id].progress[1].step = "transcoding"
        /\ jobs[id].progress[1].totalQualities = Some(2)
        /\ Len(jobs[id].progress[1].completedQualities[1]) = 1
        /\ jobs[id].progress[1].percentage = 40

\* C17: the step of a job's progress snapshot changes only along
\* downloading -> transcoding -> thumbnails -> uploading -> done, and it is
\* "thumbnails" while generateThumbnails runs.
C17_StageSequence ==
    [][\A id \in DOMAIN jobs :
           LET old == jobs[id].progress[1].step
               new == jobs'[id].progress[1].step
           IN  /\ run[id].pc \in {"duration", "poster", "scrub", "sprite"} =>
                      old = "thumbnails"
               /\ new # old =>
                      <<old, new>> \in {<<"downloading", "transcoding">>,
                                        <<"transcoding", "thumbnails">>,
                                        <<"thumbnails", "uploading">>,
                                        <<"uploading", "done">>}]_vars

\* C18: the encodes of a job that exited with 0 are the first selected
\* qualities, each once and in ladder order; the encode in flight, if any, is
\* the one of the next selected quality, and none is in flight after a
\* failed one; the quality whose encode failed is the next one as well; the
\* master playlist is built only when every selected quality was encoded.
C18_SequentialEncodes ==
    \A id \in DOMAIN run :
        LET h == history[id]
            r == run[id]
            done == Len(h.encoded)
        IN  /\ done <= Len(h.selected)
            /\ \A k \in 1..done : h.encoded[k] = h.selected[k]
            /\ \A k \in 1..(Len(h.selected) - 1) :
                   \E i, j \in 1..Len(DEFAULT_QUALITIES) :
                       /\ i < j
                       /\ DEFAULT_QUALITIES[i].name = h.selected[k]
                       /\ DEFAULT_QUALITIES[j].name = h.selected[k + 1]
            /\ r.pc \in {"encode", "collect"} =>
                   /\ h.engineFailed = None
                   /\ r.qi = (IF r.pc = "encode" THEN done + 1 ELSE done)
                   /\ r.qi <= Len(h.selected)
                   /\ r.validQualities[r.qi].name = h.selected[r.qi]
            /\ h.engineFailed # None =>
                   /\ done < Len(h.selected)
                   /\ h.engineFailed[1] = h.selected[done + 1]
                   /\ ~h.manifest
            /\ h.manifest => h.encoded = h.selected

\* The master playlist built after the encodes of two selected qualities.
C18_Witness ==
    \E id \in DOMAIN run :
        /\ history[id].manifest
        /\ history[id].encoded = <<"360p", "480p">>
        /\ history[id].selected = <<"360p", "480p">>

\* C19, strong form: the work directory of a job in a terminal state does
\* not exist.
C19_ScratchRemoved ==
    \A id \in DOMAIN jobs :
        jobs[id].status \in Terminal =>
            \A dir \in scratch : history[id].workDir # Some(dir)

\* C19, weak form: when a job that entered transcodeToHLS is in a terminal
\* state, rm of its work directory has been awaited, whatever ended the
\* transcoding (a probe, encode or thumbnail-stage error included), and the
\* directory exists only if that rm failed.
C19_ScratchRemovalAttempted ==
    \A id \in DOMAIN jobs :
        jobs[id].status \in Terminal /\ history[id].workDir # None =>
            /\ history[id].rm \in {"removed", "failed"}
            /\ history[id].rm = "removed" => history[id].workDir[1] \notin scratch

\* A job in error after a failed encode, its work directory removed.
C19_Witness ==
    \E id \in DOMAIN jobs :
        /\ jobs[id].status = "error"
        /\ history[id].engineFailed # None
        /\ history[id].rm = "removed"
        /\ history[id].workDir[1] \notin scratch

\* The file names of the keys a job's resultFiles lists.
ResultNames(job) == {job.resultFiles[1][i].file : i \in 1..Len(job.resultFiles[1])}

\* C20: the step in which the poster, the scrub or the tile run exits with a
\* non-zero code leaves the job record as it is, throws nothing and goes on
\* to the next run or to the return of the thumbnail stage; and a job that
\* becomes done has no poster key after a failed poster run (and has one
\* otherwise), and neither sprites.jpg nor thumbnails.vtt after a failed
\* scrub or tile run.
C20_ThumbnailFailuresTolerated ==
    [][\A id \in DOMAIN run :
           LET failed == history'[id].failedRuns
               job == jobs'[id]
           IN  /\ failed # history[id].failedRuns =>
                      /\ job = jobs[id]
                      /\ job.status = "processing"
                      /\ run'[id].thrown = None
                      /\ run'[id].pc \in {"scrub", "cleanup"}
               /\ job.status = "done" =>
                      /\ "poster" \in failed =>
                             job.posterUrl = None /\ "poster.jpg" \notin ResultNames(job)
                      /\ "poster" \notin failed =>
                             job.posterUrl # None /\ "poster.jpg" \in ResultNames(job)
                      /\ failed \cap {"scrub", "sprite"} # {} =>
                             /\ job.thumbnailsVtt = None
                             /\ "sprites.jpg" \notin ResultNames(job)
                             /\ "thumbnails.vtt" \notin ResultNames(job)]_vars

\* A job done after its poster run and its tile run both failed.
C20_Witness ==
    \E id \in DOMAIN jobs :
        /\ jobs[id].status = "done"
        /\ history[id].failedRuns = {"poster", "sprite"}
        /\ jobs[id].posterUrl = None
        /\ jobs[id].thumbnailsVtt = None

\* The messages of the errors getVideoDuration throws by itself.
DurationFailures ==
    {<<"Failed to get video duration">>, <<"Could not determine video duration">>}

\* C21: the duration probe either hands a duration to the poster run or
\* throws, and a throw ends the job in error: once getVideoDuration has
\* thrown, every selected quality is encoded and the master playlist built,
\* yet the runner never uploads, the bucket holds nothing of the job, and the
\* job, once the error is recorded, has the error's message and no
\* resultFiles.
C21_DurationFailureFatal ==
    [][\A id \in DOMAIN run :
           LET r == run[id]
               next == run'[id]
               job == jobs'[id]
           IN  /\ r.pc = "duration" /\ next.pc \notin {"duration", "poster"} =>
                      next.pc = "cleanup" /\ next.thrown # None
               /\ next.thrown # None /\ next.thrown[1] \in DurationFailures =>
                      /\ history'[id].manifest
                      /\ history'[id].encoded = history'[id].selected
                      /\ job.status = "processing"
               /\ r.thrown # None /\ r.thrown[1] \in DurationFailures /\ next # r =>
                      /\ job.status = "error"
                      /\ job.error = r.thrown
               /\ job.error # None /\ job.error[1] \in DurationFailures =>
                      /\ job.status = "error"
                      /\ job.resultFiles = None
                      /\ next.pc \in {"sign", "post", "finished"}
                      /\ next.inflight = {}
                      /\ \A o \in store' : o.writer # id]_vars

\* A job in error because its duration could not be determined, after the
\* encodes of two qualities and the master playlist.
C21_Witness ==
    \E id \in DOMAIN jobs :
        /\ jobs[id].status = "error"
        /\ jobs[id].error = Some(<<"Could not determine video duration">>)
        /\ history[id].encoded = <<"360p", "480p">>
        /\ history[id].manifest
        /\ WrittenBy(id) = {}

\* The files only a scrub run, a tile run and the cue generation produce.
ScrubArtifacts == {"sprites.jpg", "thumbnails.vtt"}

\* C22: with a thumbnail count of 0 (duration 3, interval 10) the scrub and
\* tile runs are never spawned, no sprite and no cue sidecar is collected,
\* and a job that reaches done has neither among its result keys nor a
\* thumbnailsVtt key, while it has the poster key when the poster run
\* succeeded.
C22_NoScrubBelowInterval ==
    [][\A id \in DOMAIN run :
           LET next == run'[id]
               job == jobs'[id]
               h == history'[id]
           IN  /\ next.pc \in {"scrub", "sprite"} => next.duration >= ThumbnailInterval
               /\ h.duration # None /\ h.duration[1] \div ThumbnailInterval = 0 =>
                      /\ next.pc \notin {"scrub", "sprite"}
                      /\ h.failedRuns \subseteq {"poster"}
                      /\ \A i \in 1..Len(next.files) :
                             next.files[i].key.file \notin ScrubArtifacts
                      /\ \A o \in store' :
                             o.writer = id => o.key.file \notin ScrubArtifacts
                      /\ job.status = "done" =>
                             /\ job.thumbnailsVtt = None
                             /\ ResultNames(job) \cap ScrubArtifacts = {}
                             /\ "poster" \notin h.failedRuns =>
                                    /\ job.posterUrl # None
                                    /\ job.posterUrl[1].file = "poster.jpg"
                                    /\ job.posterUrl[1] \in ResultKeys(job)]_vars

\* A done job of a source of 3 seconds: poster key present, no cue sidecar.
C22_Witness ==
    \E id \in DOMAIN jobs :
        /\ jobs[id].status = "done"
        /\ history[id].duration = Some(3)
        /\ history[id].failedRuns = {}
        /\ jobs[id].posterUrl # None
        /\ jobs[id].thumbnailsVtt = None
        /\ "sprites.jpg" \notin ResultNames(jobs[id])

\* The seconds a timestamp HH:MM:SS.mmm denotes, when it has that form and
\* no milliseconds; -1 otherwise.
VTTSeconds(t) ==
    IF /\ Len(t) = 12
       /\ t[3] = ":" /\ t[6] = ":" /\ t[9] = "."
       /\ \A k \in {1, 2, 4, 5, 7, 8, 10, 11, 12} : IsDigit(t[k])
       /\ DigitsValue(SubSeq(t, 10, 12)) = 0
       /\ DigitsValue(SubSeq(t, 4, 5)) < 60
       /\ DigitsValue(SubSeq(t, 7, 8)) < 60
    THEN DigitsValue(SubSeq(t, 1, 2)) * 3600 + DigitsValue(SubSeq(t, 4, 5)) * 60
         + DigitsValue(SubSeq(t, 7, 8))
    ELSE -1

\* C23: the cue file of n frames has n cues in order; cue i runs from
\* i * interval to (i + 1) * interval, so that consecutive cues meet without
\* gap or overlap, and points to the tile at ((i mod 10) * W, (i div 10) * H)
\* of size W x H in sprites.jpg; distinct cues point to distinct tiles.
C23_Cues ==
    call # None /\ call[1].fn = "generateThumbnailVTT" =>
        LET n == call[1].count
            interval == call[1].interval
            cues == call[1].result.cues
            Corner(k) == <<DigitsValue(cues[k].xywh[1]), DigitsValue(cues[k].xywh[2])>>
        IN  /\ call[1].result.header = "WEBVTT"
            /\ Len(cues) = n
            /\ \A k \in 1..n :
                   /\ VTTSeconds(cues[k].start) = (k - 1) * interval
                   /\ VTTSeconds(cues[k].end) = k * interval
                   /\ cues[k].file = "sprites.jpg"
                   /\ \A d \in 1..4 : \A e \in 1..Len(cues[k].xywh[d]) :
                          IsDigit(cues[k].xywh[d][e])
                   /\ Corner(k) = <<((k - 1) % 10) * 160, ((k - 1) \div 10) * 90>>
                   /\ DigitsValue(cues[k].xywh[3]) = 160
                   /\ DigitsValue(cues[k].xywh[4]) = 90
            /\ \A k \in 1..(n - 1) :
                   VTTSeconds(cues[k].end) = VTTSeconds(cues[k + 1].start)
            /\ \A k, m \in 1..n : k # m => Corner(k) # Corner(m)

\* The cue file of 24 frames: frame 23 lies in the third row, fourth column.
C23_Witness ==
    /\ call # None
    /\ call[1].fn = "generateThumbnailVTT"
    /\ call[1].count = 24
    /\ call[1].interval = 10
    /\ call[1].result.cues[24].xywh = <<<<"4", "8", "0">>, <<"1", "8", "0">>,
                                        <<"1", "6", "0">>, <<"9", "0">>>>
    /\ call[1].result.cues[24].start =
           <<"0", "0", ":", "0", "3", ":", "5", "0", ".", "0", "0", "0">>

\* The fields the update calls of the runner name: the processing update, a
\* progress update, the done update and the error update.
UpdateFields ==
    {{"status", "progress"}, {"progress"},
     {"status", "progress", "resultFiles", "posterUrl", "thumbnailsVtt"},
     {"status", "error"}}

\* new is old after one whole update at time t: the fields of one update call
\* and updatedAt are assigned, every other field is kept.
WholeUpdate(old, new, t) ==
    /\ new.updatedAt = t
    /\ \E fields \in UpdateFields :
           /\ \A f \in DOMAIN old \ (fields \cup {"updatedAt"}) : new[f] = old[f]
           /\ "status" \in fields => new.status # old.status
           /\ "progress" \in fields => new.progress # None
           /\ "error" \in fields => new.status = "error" /\ new.error # None
           /\ "resultFiles" \in fields => new.status = "done" /\ new.resultFiles # None

\* A record on which no update is half applied.
Whole(job) ==
    /\ job.createdAt <= job.updatedAt
    /\ job.status = "pending" => job.progress = None /\ job.updatedAt = job.createdAt
    /\ job.status = "processing" =>
           job.progress # None /\ job.error = None /\ job.resultFiles = None
    /\ job.status = "error" =>
           job.progress # None /\ job.error # None /\ job.resultFiles = None
    /\ job.status = "done" =>
           job.progress = Some(DoneProgress) /\ job.error = None /\ job.resultFiles # None

\* C24: with several jobs in flight, a step changes the record of at most
\* one job, the job whose runner took the step, and changes it by one whole
\* update; a submission only adds a record; an update for an unknown id
\* changes nothing; a query changes nothing and answers with the records as
\* the registry holds them, each one whole.
C24_RegistryIsolation ==
    [][/\ DOMAIN jobs \subseteq DOMAIN jobs'
       /\ \A id \in DOMAIN jobs :
              jobs'[id] # jobs[id] =>
                  /\ run'[id] # run[id]
                  /\ WholeUpdate(jobs[id], jobs'[id], now)
                  /\ DOMAIN jobs' = DOMAIN jobs
                  /\ \A other \in DOMAIN jobs \ {id} :
                         /\ jobs'[other] = jobs[other]
                         /\ run'[other] = run[other]
       /\ \A id \in DOMAIN jobs' : Whole(jobs'[id])
       /\ call' # call =>
              /\ jobs' = jobs
              /\ call'[1].fn = "updateJob" => call'[1].id \notin DOMAIN jobs
              /\ call'[1].fn = "getJob" =>
                     IF call'[1].id \in DOMAIN jobs
                     THEN /\ call'[1].result = Some(jobs[call'[1].id])
                          /\ Whole(call'[1].result[1])
                     ELSE call'[1].result = None
              /\ call'[1].fn = "listJobs" =>
                     /\ Len(call'[1].result) = Cardinality(DOMAIN jobs)
                     /\ \A k \in 1..Len(call'[1].result) :
                            LET job == call'[1].result[k]
                            IN  /\ job.id \in DOMAIN jobs
                                /\ job = jobs[job.id]
                                /\ Whole(job)]_vars

\* Two jobs, one failed after the other was submitted; a query answered with
\* the record of the job still processing, which is older than the failure.
C24_Witness ==
    /\ call # None
    /\ call[1].fn = "getJob"
    /\ call[1].result # None
    /\ call[1].result[1].status = "processing"
    /\ call[1].result[1] = jobs[call[1].id]
    /\ \E other \in DOMAIN jobs :
           /\ other # call[1].id
           /\ jobs[other].status = "error"
           /\ jobs[other].updatedAt > call[1].result[1].updatedAt

\* C25: every update of a record sets updatedAt to a value greater than the
\* one it had, and a record that has been updated has updatedAt greater than
\* createdAt.
C25_UpdatedAtIncreases ==
    [][\A id \in DOMAIN jobs' :
           LET new == jobs'[id]
           IN  /\ id \in DOMAIN jobs /\ new # jobs[id] =>
                      new.updatedAt > jobs[id].updatedAt
               /\ new.status # "pending" => new.updatedAt > new.createdAt]_vars

\* C26: when every awaited operation settles, a submitted job ends done or
\* in error, and its runner ends after the terminal update: it is never
\* over with the job left pending or processing.
C26_Terminates ==
    /\ (DOMAIN jobs # {}) ~>
           (\A id \in DOMAIN jobs :
                jobs[id].status \in Terminal /\ run[id].pc = "finished")
    /\ [](\A id \in DOMAIN jobs :
              run[id].pc \in {"sign", "post", "finished"} =>
                  jobs[id].status \in Terminal)

\* A job done, its runner over after the target answered the notification.
C26_Witness ==
    \E id \in DOMAIN jobs :
        /\ jobs[id].status = "done"
        /\ run[id].pc = "finished"
        /\ run[id].webhook = "ok"
        /\ run[id].inflight = {}

\* C27: once a job is done or in error, none of its PutObjects is in flight,
\* and the bucket gets no further object of it.
C27_NoWriteAfterTerminal ==
    [][\A id \in DOMAIN jobs :
           /\ jobs'[id].status \in Terminal => run'[id].inflight = {}
           /\ jobs[id].status \in Terminal => WrittenBy(id)' = WrittenBy(id)]_vars

\* C28: the step that puts a job in error changes only status, error and
\* updatedAt of its record; the progress snapshot stays the one of the last
\* stage reported, with a percentage below 100 and a step other than done,
\* and resultFiles, posterUrl and thumbnailsVtt stay unset.
C28_ErrorFrame ==
    [][\A id \in DOMAIN jobs :
           LET old == jobs[id]
               new == jobs'[id]
           IN  old.status # "error" /\ new.status = "error" =>
                   /\ \A f \in DOMAIN old \ {"status", "error", "updatedAt"} :
                          new[f] = old[f]
                   /\ old.error = None /\ new.error # None
                   /\ new.updatedAt = now
                   /\ new.progress # None
                   /\ new.progress[1].percentage < 100
                   /\ new.progress[1].step # "done"
                   /\ new.resultFiles = None
                   /\ new.posterUrl = None
                   /\ new.thumbnailsVtt = None]_vars

\* A job that failed in its upload stage: the snapshot still says uploading.
C28_Witness ==
    \E id \in DOMAIN jobs :
        /\ jobs[id].status = "error"
        /\ jobs[id].error = Some(S3Error)
        /\ jobs[id].progress # None
        /\ jobs[id].progress[1].step = "uploading"
        /\ jobs[id].progress[1].percentage = 80
        /\ jobs[id].resultFiles = None
====
